---- MODULE Spec2Model ----
(***************************************************************************)
(* Model of the structify Flutter plugin for Linux                         *)
(* (src/linux/structify_plugin.cc): the plugin registration, the method    *)
(* call handler and get_platform_version.  C strings are sequences of      *)
(* one-character strings (the terminating NUL is implicit: reading past    *)
(* the end yields NUL); strcmp and g_strdup_printf are computed character  *)
(* by character.                                                           *)
(***************************************************************************)
EXTENDS Integers, Sequences, FiniteSets, TLC

VARIABLES
  plugin,         \* the StructifyPlugin GObject (reference count and its history)
  handlers,       \* method call handlers installed on the registrar's messenger
  kernelVersion,  \* the version string the running kernel reports through uname
  pending,        \* method calls decoded by the embedder, not yet dispatched
  log             \* method calls that went through method_call_cb, with their effects

vars == <<plugin, handlers, kernelVersion, pending, log>>

(* ------------------------------ bounds --------------------------------- *)

\* total number of method calls the embedder receives in one run
MaxCalls == 3

\* number of decoded calls that may wait for dispatch at once
MaxPending == 1

(* --------------------------- string literals --------------------------- *)

\* "getPlatformVersion", the literal of the comparison
GetPlatformVersionLit ==
  <<"g","e","t","P","l","a","t","f","o","r","m","V","e","r","s","i","o","n">>

\* "Linux %s", the format of g_strdup_printf
LinuxFormat == <<"L","i","n","u","x"," ","%","s">>

\* the channel name handed to fl_method_channel_new
ChannelName == "structify"

\* method names the Dart side may send
MethodNames ==
  { GetPlatformVersionLit,
    <<>>,
    <<"g","e","t","P","l","a","t","f","o","r","m">>,
    <<"g","e","t","P","l","a","t","f","o","r","m","V","e","r","s","i","o","n","2">>,
    <<"g","e","t","p","l","a","t","f","o","r","m","v","e","r","s","i","o","n">>,
    <<"f","o","o">> }

\* argument payloads of a method call (an FlValue, or none)
MethodArgs == {"null", "map"}

\* version strings a kernel may report (utsname.version)
KernelVersions == { <<"#","1">>, <<"#","2"," ","S","M","P">> }

\* what the kernel writes to utsname.sysname
KernelSysname == <<"L","i","n","u","x">>

(* ------------------------------ C strings ------------------------------ *)

\* the character code of c (unsigned char), for the characters that occur in names
CharCode(c) ==
  CASE c = "2" -> 50  [] c = "P" -> 80  [] c = "V" -> 86  [] c = "a" -> 97
    [] c = "e" -> 101 [] c = "f" -> 102 [] c = "g" -> 103 [] c = "i" -> 105
    [] c = "l" -> 108 [] c = "m" -> 109 [] c = "n" -> 110 [] c = "o" -> 111
    [] c = "p" -> 112 [] c = "r" -> 114 [] c = "s" -> 115 [] c = "t" -> 116
    [] c = "v" -> 118

\* the byte at index i of the NUL-terminated string s
ByteAt(s, i) == IF i > Len(s) THEN 0 ELSE CharCode(s[i])

RECURSIVE strcmp_from(_, _, _)
strcmp_from(s1, s2, i) ==
  LET c1 == ByteAt(s1, i)
      c2 == ByteAt(s2, i)
  IN  IF c1 # c2 THEN c1 - c2
      ELSE IF c1 = 0 THEN 0
      ELSE strcmp_from(s1, s2, i + 1)

\* a comparison that stops at the end of s1 (strncmp with strlen(s1))
strcmp_prefix(s1, s2) ==
  IF Len(s1) <= Len(s2) /\ SubSeq(s2, 1, Len(s1)) = s1 THEN 0 ELSE 1

\* a comparison that ignores the case of ASCII letters (g_ascii_strcasecmp)
strcmp_nocase(s1, s2) ==
  LET Lower(c) == IF c >= 65 /\ c <= 90 THEN c + 32 ELSE c
      Bytes(s) == [i \in 1..Len(s) |-> Lower(CharCode(s[i]))]
  IN  IF Bytes(s1) = Bytes(s2) THEN 0 ELSE 1

\* strcmp(3): 0 iff the two strings are equal byte for byte up to the NUL
strcmp(s1, s2) == strcmp_from(s1, s2, 1)

RECURSIVE printf_from(_, _, _)
printf_from(format, i, arg) ==
  IF i > Len(format) THEN <<>>
  ELSE IF format[i] = "%" /\ i < Len(format) /\ format[i + 1] = "s"
       THEN arg \o printf_from(format, i + 2, arg)
       ELSE <<format[i]>> \o printf_from(format, i + 1, arg)

\* a formatting that drops the %s argument
g_strdup_printf_noarg(format, arg) == printf_from(format, 1, <<>>)

\* g_strdup_printf with one %s argument
g_strdup_printf(format, arg) == printf_from(format, 1, arg)

(* ------------------------------- GObject ------------------------------- *)

\* no object: the plugin before g_object_new
NoObject == [ref_count |-> 0, finalized |-> 0, bad_unref |-> 0, history |-> <<>>]

\* g_object_new: a fresh object holding one reference
g_object_new == [ref_count |-> 1, finalized |-> 0, bad_unref |-> 0, history |-> <<1>>]

\* g_object_ref: one more reference
g_object_ref(obj) ==
  [obj EXCEPT !.ref_count = @ + 1, !.history = Append(@, obj.ref_count + 1)]

\* g_object_unref: one reference less; the last one disposes and finalizes the
\* object; an unref of an object without references is an invalid release
g_object_unref(obj) ==
  IF obj.ref_count = 0
  THEN [obj EXCEPT !.bad_unref = @ + 1]
  ELSE [obj EXCEPT !.ref_count = @ - 1,
                   !.history = Append(@, obj.ref_count - 1),
                   !.finalized = IF obj.ref_count = 1 THEN @ + 1 ELSE @]

(* ------------------------ responses and the query ----------------------- *)

\* fl_value_new_string
fl_value_new_string(str) == [type |-> "string", str |-> str]

\* the FlValue of a response that carries none
NoValue == [type |-> "null", str |-> <<>>]

\* fl_method_success_response_new
fl_method_success_response_new(result) == [kind |-> "success", result |-> result]

\* fl_method_not_implemented_response_new
fl_method_not_implemented_response_new == [kind |-> "not_implemented", result |-> NoValue]

\* struct utsname left with whatever the stack held (no initializer)
utsname_garbage == [sysname |-> <<"?">>, version |-> <<"?","?">>]

\* struct utsname uname_data = {}: every field zeroed, so each is the empty string
utsname_init == [sysname |-> <<>>, version |-> <<>>]

\* uname(2) under the kernel state sys: on success it fills the buffer and returns
\* 0, on failure it returns -1 and leaves the buffer as it was
uname(buf, sys) ==
  IF sys.ok
  THEN [ret |-> 0, buf |-> [sysname |-> KernelSysname, version |-> sys.version]]
  ELSE [ret |-> -1, buf |-> buf]

\* the successful getPlatformVersion responses sent so far
SentVersions ==
  SelectSeq(log, LAMBDA e : e.call.responses # <<>>
                            /\ e.call.responses[1].kind = "success")

\* get_platform_version with the string kept in a static buffer that each call
\* appends to
get_platform_version_static(sys) ==
  LET r == uname(utsname_init, sys)
      version == g_strdup_printf(LinuxFormat, r.buf.version)
      kept == IF SentVersions = <<>> THEN <<>>
              ELSE SentVersions[Len(SentVersions)].call.responses[1].result.str
  IN  [response |-> fl_method_success_response_new(fl_value_new_string(kept \o version)),
       queries |-> <<r>>]

\* get_platform_version with the first response cached
get_platform_version_cached(sys) ==
  IF SentVersions # <<>>
  THEN [response |-> SentVersions[1].call.responses[1], queries |-> <<>>]
  ELSE LET r == uname(utsname_init, sys)
           version == g_strdup_printf(LinuxFormat, r.buf.version)
       IN  [response |-> fl_method_success_response_new(fl_value_new_string(version)),
            queries |-> <<r>>]

\* get_platform_version: the response, and the kernel queries made to build it
get_platform_version(sys) ==
  LET uname_data == utsname_init
      r == uname(uname_data, sys)
      version == g_strdup_printf(LinuxFormat, r.buf.version)
      result == fl_value_new_string(version)
  IN  [response |-> fl_method_success_response_new(result), queries |-> <<r>>]

(* --------------------------- the method handler ------------------------- *)

\* fl_method_call_get_name
fl_method_call_get_name(method_call) == method_call.name

\* fl_method_call_respond: the response is sent on the call
fl_method_call_respond(method_call, response) ==
  [method_call EXCEPT !.responses = Append(@, response)]

\* a handler that responds on the getPlatformVersion branch only
handle_method_call_silent_else(self, method_call, sys) ==
  IF strcmp(fl_method_call_get_name(method_call), GetPlatformVersionLit) = 0
  THEN LET g == get_platform_version(sys)
       IN  [call |-> fl_method_call_respond(method_call, g.response),
            queries |-> g.queries, self |-> self]
  ELSE [call |-> method_call, queries |-> <<>>, self |-> self]

\* a handler that, having built its response, rejects calls carrying arguments
handle_method_call_checks_args(self, method_call, sys) ==
  LET method == fl_method_call_get_name(method_call)
      taken == IF strcmp(method, GetPlatformVersionLit) = 0
               THEN get_platform_version(sys)
               ELSE [response |-> fl_method_not_implemented_response_new,
                     queries |-> <<>>]
      response == IF method_call.args = "null" THEN taken.response
                  ELSE fl_method_not_implemented_response_new
  IN  [call |-> fl_method_call_respond(method_call, response),
       queries |-> taken.queries,
       self |-> self]

\* structify_plugin_handle_method_call: the call after the handler ran, the
\* kernel queries the handler made, and the plugin instance it was given
structify_plugin_handle_method_call(self, method_call, sys) ==
  LET method == fl_method_call_get_name(method_call)
      taken == IF strcmp(method, GetPlatformVersionLit) = 0
               THEN get_platform_version(sys)
               ELSE [response |-> fl_method_not_implemented_response_new,
                     queries |-> <<>>]
  IN  [call |-> fl_method_call_respond(method_call, taken.response),
       queries |-> taken.queries,
       self |-> self]

(* ------------------------------ registration ---------------------------- *)

\* fl_method_channel_set_method_call_handler: a channel has one handler; setting
\* it replaces the handler the channel had
fl_method_channel_set_method_call_handler(hs, channel, callback, user_data, destroy_notify) ==
  SelectSeq(hs, LAMBDA h : h.channel # channel)
    \o <<[channel |-> channel, callback |-> callback,
          user_data |-> user_data, destroy_notify |-> destroy_notify]>>

\* a registration that forgets the g_object_unref of its own reference
register_with_registrar_leak(hs) ==
  LET created == g_object_new
      held == g_object_ref(created)
  IN  [plugin |-> held,
       handlers |-> fl_method_channel_set_method_call_handler(
                      hs, ChannelName, "method_call_cb", "plugin", "g_object_unref")]

\* structify_plugin_register_with_registrar on a messenger whose handlers are hs
structify_plugin_register_with_registrar(hs) ==
  LET created == g_object_new
      held == g_object_ref(created)
      installed == fl_method_channel_set_method_call_handler(
                     hs, ChannelName, "method_call_cb", "plugin", "g_object_unref")
      released == g_object_unref(held)
  IN  [plugin |-> released, handlers |-> installed]

(* -------------------------------- actions ------------------------------- *)

Init ==
  /\ plugin = NoObject
  /\ handlers = <<>>
  /\ kernelVersion \in KernelVersions
  /\ pending = <<>>
  /\ log = <<>>

\* the embedder registers the plugin, once
Register ==
  /\ plugin = NoObject
  /\ LET r == structify_plugin_register_with_registrar(handlers)
     IN  /\ plugin' = r.plugin
         /\ handlers' = r.handlers
  /\ UNCHANGED <<kernelVersion, pending, log>>

\* a method call arrives on the channel and waits for the main loop
ReceiveCall ==
  /\ handlers # <<>>
  /\ Len(pending) < MaxPending
  /\ Len(log) + Len(pending) < MaxCalls
  /\ \E name \in MethodNames, args \in MethodArgs :
       pending' = Append(pending, [name |-> name, args |-> args, responses |-> <<>>])
  /\ UNCHANGED <<plugin, handlers, kernelVersion, log>>

\* method_call_cb: the main loop hands the oldest waiting call to the handler;
\* ok is whether a uname made during the call succeeds
method_call_cb ==
  /\ handlers # <<>>
  /\ pending # <<>>
  /\ \E ok \in BOOLEAN :
       LET r == structify_plugin_handle_method_call(
                  plugin, Head(pending), [version |-> kernelVersion, ok |-> ok])
       IN  /\ log' = Append(log, [call |-> r.call, queries |-> r.queries])
           /\ plugin' = r.self
  /\ pending' = Tail(pending)
  /\ UNCHANGED <<handlers, kernelVersion>>

\* the kernel comes to report another version
KernelChange ==
  /\ \E v \in KernelVersions \ {kernelVersion} : kernelVersion' = v
  /\ UNCHANGED <<plugin, handlers, pending, log>>

\* the channel is destroyed: the embedder runs the handler's destroy notify on
\* its user data and drops the calls that were waiting
DestroyChannel ==
  /\ handlers # <<>>
  /\ plugin' = IF handlers[1].destroy_notify = "g_object_unref"
               THEN g_object_unref(plugin) ELSE plugin
  /\ handlers' = <<>>
  /\ pending' = <<>>
  /\ UNCHANGED <<kernelVersion, log>>

Next ==
  \/ Register
  \/ ReceiveCall
  \/ method_call_cb
  \/ KernelChange
  \/ DestroyChannel

Spec == Init /\ [][Next]_vars

(* ------------------------- vocabulary of the claims --------------------- *)

\* "Linux ", the text of the format before its %s
LinuxPrefix == <<"L","i","n","u","x"," ">>

\* the entry is a call named exactly "getPlatformVersion"
Asked(e) == e.call.name = GetPlatformVersionLit

\* the string of the first response of the entry
Payload(e) == e.call.responses[1].result.str

\* the entry was answered with one success response that wraps the string str
AnsweredWith(e, str) ==
  e.call.responses = <<[kind |-> "success", result |-> [type |-> "string", str |-> str]]>>

\* the entry was answered with one not-implemented response
AnsweredNotImplemented(e) ==
  e.call.responses = <<[kind |-> "not_implemented", result |-> [type |-> "null", str |-> <<>>]]>>

\* str holds "Linux" and, after it, a token (a character that is not a space)
HasVersionToken(str) ==
  \E k \in 1..Len(str) :
    /\ k + 4 <= Len(str)
    /\ SubSeq(str, k, k + 4) = <<"L","i","n","u","x">>
    /\ \E j \in (k + 5)..Len(str) : str[j] # " "

\* the entries of the log, by index
Entries == 1..Len(log)

(* --------------------------------- C1 ----------------------------------- *)

C2_OtherNamesNotImplemented ==
  \A i \in Entries :
    ~Asked(log[i]) =>
      /\ AnsweredNotImplemented(log[i])
      /\ log[i].queries = <<>>

\* the call "foo" was answered not-implemented
C2_Witness ==
  \E i \in Entries :
    /\ log[i].call.name = <<"f","o","o">>
    /\ AnsweredNotImplemented(log[i])

(* --------------------------------- C3 ----------------------------------- *)

\* C3: every call the handler was given carries exactly one response once the
\* handler has returned, on either branch, and a call not yet given to the handler
\* carries none
C3_AnsweredExactlyOnce ==
  /\ \A i \in Entries : Len(log[i].call.responses) = 1
  /\ \A k \in 1..Len(pending) : pending[k].responses = <<>>

\* both branches were taken, each call with its one response
C3_Witness ==
  \E i, j \in Entries :
    /\ Asked(log[i]) /\ Len(log[i].call.responses) = 1
    /\ log[i].call.responses[1].kind = "success"
    /\ ~Asked(log[j]) /\ Len(log[j].call.responses) = 1
    /\ log[j].call.responses[1].kind = "not_implemented"

(* --------------------------------- C4 ----------------------------------- *)

\* C4: the string of every getPlatformVersion success response is non-empty and
\* holds "Linux" followed by a version token, whatever the kernel query did
C4_VersionTokenAlways ==
  \A i \in Entries :
    (Asked(log[i]) /\ log[i].call.responses # <<>>
       /\ log[i].call.responses[1].kind = "success") =>
      /\ Payload(log[i]) # <<>>
      /\ HasVersionToken(Payload(log[i]))

(* --------------------------------- C5 ----------------------------------- *)

\* C5: two getPlatformVersion calls to which the kernel reported the same thing
\* received the same responses, whatever was called before or between them
C5_SameReportSameResponse ==
  \A i, j \in Entries :
    (Asked(log[i]) /\ Asked(log[j]) /\ log[i].queries = log[j].queries) =>
      log[i].call.responses = log[j].call.responses

\* two getPlatformVersion calls with another call between them, the kernel
\* reporting the same version to both, with the same string in both responses
C5_Witness ==
  \E i, k, j \in Entries :
    /\ i < k /\ k < j
    /\ Asked(log[i]) /\ ~Asked(log[k]) /\ Asked(log[j])
    /\ log[i].queries # <<>> /\ log[i].queries[1].ret = 0
    /\ log[i].queries = log[j].queries
    /\ log[i].call.responses # <<>>
    /\ log[i].call.responses = log[j].call.responses

(* --------------------------------- C6 ----------------------------------- *)

\* C6: every step that handles a getPlatformVersion call makes exactly one kernel
\* query, and when the query succeeds the response carries the version the kernel
\* reports at that step, not one from an earlier call
C6_FreshOnEveryCall ==
  [][ log' # log =>
        LET e == log'[Len(log')]
        IN  Asked(e) =>
              /\ Len(e.queries) = 1
              /\ e.queries[1].ret = 0 => AnsweredWith(e, LinuxPrefix \o kernelVersion) ]_vars

\* the kernel's version changed between two getPlatformVersion calls and the later
\* response carries the later version
C6_Witness ==
  \E i, j \in Entries :
    /\ i < j
    /\ Asked(log[i]) /\ Asked(log[j])
    /\ log[i].queries # <<>> /\ log[j].queries # <<>>
    /\ log[i].queries[1].ret = 0 /\ log[j].queries[1].ret = 0
    /\ log[i].queries[1].buf.version # log[j].queries[1].buf.version
    /\ AnsweredWith(log[j], LinuxPrefix \o log[j].queries[1].buf.version)
    /\ log[i].call.responses # log[j].call.responses

(* --------------------------------- C7 ----------------------------------- *)

\* C7: a getPlatformVersion call whose kernel query failed is still answered with
\* a success response, built from the zeroed struct: its string is exactly "Linux "
C7_FailedQueryStillSuccess ==
  \A i \in Entries :
    (Asked(log[i]) /\ log[i].queries # <<>> /\ log[i].queries[1].ret # 0) =>
      /\ log[i].queries[1].buf.version = <<>>
      /\ AnsweredWith(log[i], <<"L","i","n","u","x"," ">>)

\* a getPlatformVersion call whose kernel query failed was answered
C7_Witness ==
  \E i \in Entries :
    /\ Asked(log[i])
    /\ log[i].queries # <<>>
    /\ log[i].queries[1].ret = -1
    /\ log[i].call.responses # <<>>
    /\ log[i].call.responses[1].kind = "success"

(* --------------------------------- C8 ----------------------------------- *)

\* the names that differ from the literal by being empty, a proper prefix, an
\* extension or a case variant
NearMisses ==
  { <<>>,
    <<"g","e","t","P","l","a","t","f","o","r","m">>,
    <<"g","e","t","P","l","a","t","f","o","r","m","V","e","r","s","i","o","n","2">>,
    <<"g","e","t","p","l","a","t","f","o","r","m","v","e","r","s","i","o","n">> }

\* C8: the empty name, the prefix "getPlatform", the extension
\* "getPlatformVersion2" and the case variant "getplatformversion" are all
\* answered not-implemented, and only the exact literal is answered with success
C8_ExactMatchOnly ==
  \A i \in Entries :
    /\ log[i].call.name \in NearMisses => AnsweredNotImplemented(log[i])
    /\ (log[i].call.responses # <<>> /\ log[i].call.responses[1].kind = "success")
         => log[i].call.name = GetPlatformVersionLit

\* the prefix, the extension and the case variant were each called and answered
\* not-implemented
C8_Witness ==
  \E i, j, k \in Entries :
    /\ log[i].call.name = <<"g","e","t","P","l","a","t","f","o","r","m">>
    /\ Len(log[j].call.name) = Len(GetPlatformVersionLit) + 1
    /\ log[k].call.name =
         <<"g","e","t","p","l","a","t","f","o","r","m","v","e","r","s","i","o","n">>
    /\ AnsweredNotImplemented(log[i])
    /\ AnsweredNotImplemented(log[j])
    /\ AnsweredNotImplemented(log[k])

(* --------------------------------- C9 ----------------------------------- *)

\* C9: two calls with the same name and different arguments, the kernel reporting
\* the same thing to both, received the same responses; and the step that handles
\* a call leaves the call's arguments and the plugin instance as they were
C9_ArgumentsIgnored ==
  /\ [](\A i, j \in Entries :
          (/\ log[i].call.name = log[j].call.name
           /\ log[i].call.args # log[j].call.args
           /\ log[i].queries = log[j].queries) =>
            log[i].call.responses = log[j].call.responses)
  /\ [][ log' # log =>
           /\ plugin' = plugin
           /\ log'[Len(log')].call.args = Head(pending).args ]_vars

\* getPlatformVersion was called once with and once without arguments against the
\* same kernel version, and both calls got the same string
C9_Witness ==
  \E i, j \in Entries :
    /\ Asked(log[i]) /\ Asked(log[j])
    /\ log[i].call.args = "null" /\ log[j].call.args = "map"
    /\ log[i].queries # <<>> /\ log[i].queries[1].ret = 0
    /\ log[i].queries = log[j].queries
    /\ log[i].call.responses # <<>>
    /\ log[i].call.responses = log[j].call.responses

(* --------------------------------- C10 ---------------------------------- *)

\* C10: after registration there is exactly one handler, on the channel
\* "structify", and the plugin's reference count went 1, 2, 1: the only reference
\* left is the handler's; destroying the handler takes the count to 0 and
\* finalizes the plugin exactly once; no release ever hits a dead object
C10_ReferencesBalanced ==
  /\ plugin.bad_unref = 0
  /\ plugin.finalized <= 1
  /\ handlers # <<>> =>
       /\ Len(handlers) = 1
       /\ handlers[1].channel = "structify"
       /\ handlers[1].callback = "method_call_cb"
       /\ plugin.history = <<1, 2, 1>>
       /\ plugin.ref_count = 1
       /\ plugin.finalized = 0
  /\ (handlers = <<>> /\ plugin.history # <<>>) =>
       /\ plugin.history = <<1, 2, 1, 0>>
       /\ plugin.ref_count = 0
       /\ plugin.finalized = 1

\* the plugin was registered and its handler destroyed
C10_Witness ==
  /\ handlers = <<>>
  /\ plugin.history = <<1, 2, 1, 0>>
  /\ plugin.finalized = 1

====
